---- MODULE Spec2Model ----
(***************************************************************************)
(* Critique pipeline of the maestro backend: NotesCriticAgent.run (the     *)
(* per-note audit) and NoteCriticManager.critique_all_notes (the batch     *)
(* loop over the UNCHECKED notes of one mission).                          *)
(***************************************************************************)
EXTENDS Integers, Sequences, FiniteSets, TLC

\* ------------------------------------------------------------------ bounds
NumNotes == 3
\* batch runs on one mission, one after the other
MaxRuns == 2
\* notes of the mission when several runs are followed
NumNotesRuns == 2
NumNotesLive == 3

\* ------------------------------------------------------------ value model
\* Python None for an optional string / an optional object, and a key that is
\* missing from a parsed JSON mapping.
NoneStr == "<None>"
NoneVal == [none |-> TRUE]
Absent == "<absent>"

\* schemas/notes.py: class VerificationStatus
UNCHECKED == "unchecked"
PASSED == "passed"
REVISE == "revise"
VerificationStatus == {UNCHECKED, PASSED, REVISE}

\* ids of the notes held by the store, in the store's order
NoteIds == <<"n1", "n2", "n3", "n4", "n5">>
ForeignId == "nX"

\* Python truthiness of an Optional[str]: None and "" are falsy
truthy_str(s) == s # NoneStr /\ s # ""

\* ------------------------------------------------- raw replies of the model
\* A JSON object of a reply, as the mapping the parser produces from it.
RawObj(id, assessment, revise, status, sp, extra) ==
    [note_id |-> id, overall_assessment |-> assessment, accuracy_score |-> "0.9",
     source_alignment |-> "aligned", revise_needed |-> revise,
     verification_status |-> status, scratchpad_update |-> sp,
     hallucinations_detected |-> <<>>, unknown_field |-> extra]

ObjPassed == RawObj(Absent, "A1", "false", PASSED, "S1", Absent)
ObjRevise == RawObj(ForeignId, "A2", "true", REVISE, "", Absent)
ObjUncheckedVerdict == RawObj("n1", "A3", "false", UNCHECKED, "S2", "x")
ObjMissingStatus == RawObj("n2", "A1", "false", Absent, "S3", Absent)
ObjBadEnum == RawObj(Absent, "A1", "false", "bogus", "S3", Absent)
\* a verdict of passed next to a low score, a flagged claim and revise_needed
ObjPassedFlagged ==
    [RawObj(Absent, "A4", "true", PASSED, "", Absent)
        EXCEPT !.accuracy_score = "0.1", !.hallucinations_detected = <<"h1">>]

\* The text of a reply is a sequence of tokens: a line of backticks, a
\* language tag, a JSON object, or any other text. The text of an object one
\* of whose strings holds backticks is cut at them: its head (from the opening
\* brace), what the backticks enclose, its tail (to the closing brace).
TokFence == [t |-> "fence"]
TokLang == [t |-> "lang"]
TokJunk == [t |-> "junk"]
TokObj(o) == [t |-> "obj", v |-> o]
TokHead(o) == [t |-> "head", v |-> o]
TokTail(o) == [t |-> "tail", v |-> o]

\* What self._call_llm can come back with.
\* RespRaise: it raises an Exception; RespRaiseBase: a BaseException that is
\* no Exception leaves it (asyncio.CancelledError thrown at the await of line
\* 149 when the task is cancelled, KeyboardInterrupt, SystemExit).
RespRaise == [kind |-> "raise", content |-> <<>>]
RespRaiseBase == [kind |-> "raise_base", content |-> <<>>]
RespNone == [kind |-> "none", content |-> <<>>]
RespNoChoices == [kind |-> "nochoices", content |-> <<>>]
RespOk(c) == [kind |-> "ok", content |-> c]

BackendResponses ==
    { RespRaise, RespRaiseBase, RespNone, RespNoChoices,
      RespOk(<<>>),
      RespOk(<<TokJunk>>),
      RespOk(<<TokObj(ObjPassed)>>),
      RespOk(<<TokObj(ObjPassedFlagged)>>),
      RespOk(<<TokFence, TokLang, TokObj(ObjRevise), TokFence>>),
      RespOk(<<TokJunk, TokFence, TokObj(ObjUncheckedVerdict), TokFence, TokJunk>>),
      RespOk(<<TokObj(ObjMissingStatus)>>),
      RespOk(<<TokFence, TokObj(ObjBadEnum), TokFence>>) }

\* ----------------------------------------------------- NotesCriticAgent.run
\* re.search(r'```(?:json)?\s*(\{.*?\})\s*```', json_str, re.DOTALL)
\* tokens whose text starts with "{" / ends with "}"
OpensBrace(tok) == tok.t \in {"obj", "head"}
ClosesBrace(tok) == tok.t \in {"obj", "tail"}

\* The match that starts at the backticks at position i: <<first, last>> of
\* the group, from the "{" that follows the backticks (and the optional tag)
\* to the first "}" that backticks follow; <<>> when there is none.
FenceAt(c, i) ==
    IF c[i] # TokFence THEN <<>>
    ELSE LET j == IF i + 1 <= Len(c) /\ c[i+1] = TokLang THEN i + 2 ELSE i + 1
             ends == {e \in j..(Len(c) - 1) : ClosesBrace(c[e]) /\ c[e+1] = TokFence}
         IN IF j > Len(c) \/ ~OpensBrace(c[j]) \/ ends = {} THEN <<>>
            ELSE <<j, CHOOSE e \in ends : \A f \in ends : e <= f>>

\* the leftmost match
fence_match(c) ==
    LET hits == {i \in 1..Len(c) : FenceAt(c, i) # <<>>}
    IN IF hits = {} THEN <<>>
       ELSE FenceAt(c, CHOOSE i \in hits : \A j \in hits : i <= j)

\* agent lines 159-161: json_str = match.group(1) if there is a match
strip_fence(c) ==
    IF fence_match(c) # <<>> THEN SubSeq(c, fence_match(c)[1], fence_match(c)[2]) ELSE c

\* json_utils.parse_llm_json_response: a mapping, or an exception
parse_ok(json_str) == Len(json_str) = 1 /\ json_str[1].t = "obj"
parse_llm_json_response(json_str) == json_str[1].v

\* json_utils.prepare_for_pydantic_validation: drops the keys the schema does
\* not know; never fails.
prepare_for_pydantic_validation(d) == [d EXCEPT !.unknown_field = Absent]

\* schemas/notes.py: the fields of NotesCritiqueOutput declared with Field(...)
RequiredFields == {"note_id", "overall_assessment", "accuracy_score",
                   "source_alignment", "revise_needed", "verification_status",
                   "scratchpad_update"}

\* variant: verification_status declared as a plain str, not as the enum
NotesCritiqueOutput_valid_plain_str(d) ==
    \A f \in RequiredFields : d[f] # Absent

\* schemas/notes.py: NotesCritiqueOutput(**data) raises ValidationError unless
\* every required field is there and verification_status is a member of the
\* enum.
NotesCritiqueOutput_valid(d) ==
    /\ \A f \in RequiredFields : d[f] # Absent
    /\ d.verification_status \in VerificationStatus

NotesCritiqueOutput(d) ==
    [note_id |-> d.note_id, overall_assessment |-> d.overall_assessment,
     accuracy_score |-> d.accuracy_score, source_alignment |-> d.source_alignment,
     revise_needed |-> d.revise_needed,
     verification_status |-> d.verification_status,
     scratchpad_update |-> d.scratchpad_update,
     hallucinations_detected |-> d.hallucinations_detected]

\* variant: the note_id of the reply is kept
assign_note_id_kept(parsed_json, note_id) == parsed_json

\* parsed_json['note_id'] = note.note_id
assign_note_id(parsed_json, note_id) == [parsed_json EXCEPT !.note_id = note_id]

\* return None, model_call_details, scratchpad_update (lines 176, 179, 183)
NoResult == [critique_output |-> NoneVal, scratchpad_update |-> NoneStr,
             raised |-> NoneStr]

\* run is left by the exception: nothing is returned
Raises(exc) == [critique_output |-> NoneVal, scratchpad_update |-> NoneStr,
                raised |-> exc]

\* variant: no outer except, what _call_llm raises leaves run
run_no_outer_except(note_id, response) ==
    IF response.kind = "raise_base" THEN Raises("BaseException")
    ELSE IF response.kind = "raise" THEN Raises("Exception")
    ELSE IF response.kind # "ok" \/ response.content = <<>> THEN NoResult
    ELSE LET json_str == strip_fence(response.content)
         IN IF ~parse_ok(json_str) THEN NoResult
            ELSE LET parsed_json == assign_note_id(parse_llm_json_response(json_str), note_id)
                     prepared_data == prepare_for_pydantic_validation(parsed_json)
                 IN IF ~NotesCritiqueOutput_valid(prepared_data) THEN NoResult
                    ELSE [critique_output |-> NotesCritiqueOutput(prepared_data),
                          scratchpad_update |-> prepared_data.scratchpad_update,
                          raised |-> NoneStr]

\* What run returns for the note and the backend's response: response_model
\* and scratchpad_update, or the exception that leaves run. The except clauses
\* of lines 174 and 181 are "except Exception": the outer one catches an
\* Exception raised by _call_llm, the inner one what parsing and validation
\* raise; a BaseException that is no Exception passes through both.
run(note_id, response) ==
    IF response.kind = "raise_base" THEN Raises("BaseException")
    ELSE IF response.kind = "raise" THEN NoResult
    ELSE IF response.kind # "ok" \/ response.content = <<>> THEN NoResult
    ELSE LET json_str == strip_fence(response.content)
         IN IF ~parse_ok(json_str) THEN NoResult
            ELSE LET parsed_json == assign_note_id(parse_llm_json_response(json_str), note_id)
                     prepared_data == prepare_for_pydantic_validation(parsed_json)
                 IN IF ~NotesCritiqueOutput_valid(prepared_data) THEN NoResult
                    ELSE [critique_output |-> NotesCritiqueOutput(prepared_data),
                          scratchpad_update |-> prepared_data.scratchpad_update,
                          raised |-> NoneStr]

\* ------------------------------------------------------------------ state
VARIABLES
    mission_exists,      \* the store holds a context for mission_id
    notes,               \* store: mission_context.notes, in the store's order
    store_scratchpad,    \* store: the mission's agent scratchpad
    execution_log,       \* store: entries recorded by log_execution_step
    store_calls,         \* the mutating store calls issued so far, in order
    mission_running,     \* what check_mission_status_async answers
    pc,                  \* position of critique_all_notes
    mission_context,     \* the notes of the context loaded at line 27
    notes_to_critique,   \* local: ids of the selected notes
    scratchpad,          \* local: the scratchpad accumulator
    idx,                 \* position of the for loop in notes_to_critique
    processed_count,     \* local
    response,            \* what the backend answered to the audit in flight
    critique_output,     \* local: first component of what run returned
    scratchpad_update,   \* local: third component of what run returned
    worker_calls,        \* invocations of notes_critic_agent.run, in order
    worker_results,      \* what each of them returned, in order
    scratchpad_at_load,  \* what get_scratchpad answered at line 34
    outcome,             \* how the call of critique_all_notes ended
    store_goals,         \* store: what get_active_goals answers
    store_thoughts,      \* store: what get_recent_thoughts answers
    active_goals,        \* local, line 32
    active_thoughts,     \* local, line 33
    backend_calls,       \* number of self._call_llm calls issued in the run
    stopped_at,          \* where the batch was when the mission was stopped
    failed_audits,       \* ids of the notes whose latest audit returned nothing
    run_no,              \* which batch run on the mission this is
    rt                   \* the extraction of one serialized critique

vars == <<mission_exists, notes, store_scratchpad, execution_log, store_calls,
          mission_running, pc, mission_context, notes_to_critique, scratchpad,
          idx, processed_count, response, critique_output, scratchpad_update,
          worker_calls, worker_results, scratchpad_at_load, outcome,
          store_goals, store_thoughts, active_goals, active_thoughts,
          backend_calls, stopped_at, failed_audits, run_no, rt>>

fixed_vars == <<store_goals, store_thoughts, run_no, rt>>
ctx_vars == <<active_goals, active_thoughts>>

store_vars == <<notes, store_scratchpad, execution_log, store_calls>>
local_vars == <<mission_context, notes_to_critique, scratchpad, idx,
                processed_count, response, critique_output, scratchpad_update,
                scratchpad_at_load>>

\* schemas/notes.py: class Note, the fields of the verification state
Note(id, status) ==
    [note_id |-> id, verification_status |-> status,
     verification_feedback |-> IF status = UNCHECKED THEN NoneStr ELSE "F0",
     critique_results |-> <<>>]

Pending == [returned |-> "<pending>", raised |-> NoneStr]
NeverStopped == [pc |-> "never", idx |-> 0]
RtIdle == [stage |-> "idle"]

\* what the store can hold as active goals (GoalEntry.text) and recent
\* thoughts (ThoughtEntry.content)
GoalLists == {<<>>, <<"g1", "g2">>}
ThoughtLists == {<<>>, <<"t1">>}
ReturnedNone == [returned |-> NoneStr, raised |-> NoneStr]

\* The state before critique_all_notes is called on a mission of n notes.
InitFor(n) ==
    /\ mission_exists \in BOOLEAN
    /\ \E st \in [1..n -> VerificationStatus] :
          notes = IF mission_exists
                  THEN [i \in 1..n |-> Note(NoteIds[i], st[i])]
                  ELSE <<>>
    /\ store_scratchpad \in IF mission_exists THEN {"", "S0"} ELSE {""}
    /\ execution_log = <<>>
    /\ store_calls = <<>>
    /\ mission_running = TRUE
    /\ pc = "start"
    /\ mission_context = <<>>
    /\ notes_to_critique = <<>>
    /\ scratchpad = NoneStr
    /\ idx = 0
    /\ processed_count = 0
    /\ response = RespNone
    /\ critique_output = NoneVal
    /\ scratchpad_update = NoneStr
    /\ worker_calls = <<>>
    /\ worker_results = <<>>
    /\ scratchpad_at_load = NoneStr
    /\ outcome = Pending
    /\ store_goals \in IF mission_exists THEN GoalLists ELSE {<<>>}
    /\ store_thoughts \in IF mission_exists THEN ThoughtLists ELSE {<<>>}
    /\ active_goals = <<>>
    /\ active_thoughts = <<>>
    /\ backend_calls = 0
    /\ stopped_at = NeverStopped
    /\ failed_audits = {}
    /\ run_no = 1
    /\ rt = RtIdle

Init == InitFor(NumNotes)

\* ------------------------------------------------------- the mission store
\* context_manager.update_note_verification
update_note_verification(ns, note_id, status, feedback, critique_result) ==
    [i \in DOMAIN ns |->
        IF ns[i].note_id = note_id
        THEN [ns[i] EXCEPT !.verification_status = status,
                           !.verification_feedback = feedback,
                           !.critique_results = Append(@, critique_result)]
        ELSE ns[i]]

\* utils.status_checks.check_mission_status_async: TRUE while the mission is
\* not stopped. The body of critique_all_notes is entered with the mission
\* running (what the acheck_mission_status decorator does before it is not
\* part of the body).
check_mission_status_async == mission_running

\* ------------------------------------- NoteCriticManager.critique_all_notes
\* variant: every note that has not passed is selected
is_not_passed(n) == n.verification_status # PASSED

\* line 38
is_unchecked(n) == n.verification_status = UNCHECKED

\* variant: no filter on the verification status
select_all(ns) == [i \in 1..Len(ns) |-> ns[i].note_id]

\* variant: the selected notes are walked from the last to the first
select_unchecked_reversed(ns) ==
    LET sel == SelectSeq(ns, is_unchecked)
    IN [i \in 1..Len(sel) |-> sel[Len(sel) + 1 - i].note_id]

\* [n for n in mission_context.notes if n.verification_status == UNCHECKED]
select_unchecked(ns) ==
    LET sel == SelectSeq(ns, is_unchecked)
    IN [i \in 1..Len(sel) |-> sel[i].note_id]

\* variant: a batch summary of zero notes is recorded for a missing mission
Load_logs_when_missing ==
    /\ pc = "start"
    /\ IF ~mission_exists
       THEN /\ pc' = "done"
            /\ outcome' = ReturnedNone
            /\ UNCHANGED <<mission_context, notes_to_critique, scratchpad, idx,
                           processed_count, scratchpad_at_load, ctx_vars>>
            /\ execution_log' = Append(execution_log, [op |-> "log_execution_step"])
            /\ store_calls' = Append(store_calls, [op |-> "log_execution_step"])
            /\ UNCHANGED <<notes, store_scratchpad>>
       ELSE /\ mission_context' = notes
            /\ active_goals' = store_goals
            /\ active_thoughts' = store_thoughts
            /\ scratchpad' = store_scratchpad
            /\ scratchpad_at_load' = store_scratchpad
            /\ notes_to_critique' = select_unchecked(notes)
            /\ processed_count' = 0
            /\ idx' = 1
            /\ pc' = "poll"
            /\ UNCHANGED <<outcome, store_vars>>
    /\ UNCHANGED <<mission_exists, mission_running, response,
                   critique_output, scratchpad_update, worker_calls, worker_results>>
    /\ UNCHANGED <<fixed_vars, backend_calls, stopped_at, failed_audits>>

\* lines 27-43: load the context, select the notes
Load ==
    /\ pc = "start"
    /\ IF ~mission_exists
       THEN /\ pc' = "done"
            /\ outcome' = ReturnedNone
            /\ UNCHANGED <<mission_context, notes_to_critique, scratchpad, idx,
                           processed_count, scratchpad_at_load, ctx_vars>>
       ELSE /\ mission_context' = notes
            /\ active_goals' = store_goals
            /\ active_thoughts' = store_thoughts
            /\ scratchpad' = store_scratchpad
            /\ scratchpad_at_load' = store_scratchpad
            /\ notes_to_critique' = select_unchecked(notes)
            /\ processed_count' = 0
            /\ idx' = 1
            /\ pc' = "poll"
            /\ UNCHANGED outcome
    /\ UNCHANGED <<mission_exists, store_vars, mission_running, response,
                   critique_output, scratchpad_update, worker_calls, worker_results>>
    /\ UNCHANGED <<fixed_vars, backend_calls, stopped_at, failed_audits>>

\* variant: a stopped mission is waited for
after_poll_waits(running) == IF running THEN "call" ELSE "poll"

\* variant: the answer of the status check is ignored
after_poll_ignored(running) == "call"

\* variant: return instead of break
after_poll_return(running) == IF running THEN "call" ELSE "done"

\* lines 44-48: where the loop goes for the answer of the status check
after_poll(running) == IF running THEN "call" ELSE "summary"

\* lines 44-48: next note of the for loop, status check, break
Poll ==
    /\ pc = "poll"
    /\ pc' = IF idx > Len(notes_to_critique) THEN "summary"
             ELSE after_poll(check_mission_status_async)
    /\ UNCHANGED <<mission_exists, store_vars, mission_running, local_vars,
                   worker_calls, worker_results, outcome>>
    /\ UNCHANGED <<fixed_vars, ctx_vars, backend_calls, stopped_at, failed_audits>>

\* ------------------------------------------- the prompt of one audit
\* The prompt is the sequence of its blocks; a context that is the empty
\* string contributes no block.
PromptLine(bullet, text) == [bullet |-> bullet, text |-> text]

\* variant: the scratchpad block is written whatever the scratchpad is
scratchpad_context_always(agent_scratchpad) ==
    <<[block |-> "scratchpad", body |-> <<PromptLine(FALSE, agent_scratchpad)>>]>>

\* agent line 106
scratchpad_context(agent_scratchpad) ==
    IF truthy_str(agent_scratchpad)
    THEN <<[block |-> "scratchpad", body |-> <<PromptLine(FALSE, agent_scratchpad)>>]>>
    ELSE <<>>

\* agent lines 108-109: goals_str is "None" when there is no goal
active_goals_context(goals) ==
    <<[block |-> "active_goals",
       body |-> IF goals # <<>>
                THEN [i \in 1..Len(goals) |-> PromptLine(TRUE, goals[i])]
                ELSE <<PromptLine(FALSE, "None")>>]>>

\* agent lines 111-114
thoughts_context(thoughts) ==
    IF thoughts # <<>>
    THEN <<[block |-> "recent_thoughts",
            body |-> [i \in 1..Len(thoughts) |-> PromptLine(TRUE, thoughts[i])]]>>
    ELSE <<>>

\* agent lines 124-143
build_prompt(note_id, section_goal, goals, thoughts, agent_scratchpad) ==
    <<[block |-> "note", body |-> <<PromptLine(FALSE, note_id)>>],
      [block |-> "source", body |-> <<PromptLine(FALSE, note_id)>>],
      [block |-> "section_goal", body |-> <<PromptLine(FALSE, section_goal)>>]>>
    \o active_goals_context(goals)
    \o scratchpad_context(agent_scratchpad)
    \o thoughts_context(thoughts)

\* line 51: section_goal = mission_context.user_request
user_request == "user_request"

\* lines 54-63 and agent lines 100-155: run is entered with the current
\* scratchpad and issues its one backend call
InvokeWorker ==
    /\ pc = "call"
    /\ worker_calls' = Append(worker_calls,
          [note_id |-> notes_to_critique[idx], agent_scratchpad |-> scratchpad,
           active_goals |-> active_goals, active_thoughts |-> active_thoughts,
           prompt |-> build_prompt(notes_to_critique[idx], user_request,
                                   active_goals, active_thoughts, scratchpad)])
    /\ backend_calls' = backend_calls + 1
    /\ pc' = "inflight"
    /\ UNCHANGED <<mission_exists, store_vars, mission_running, local_vars,
                   worker_results, outcome>>
    /\ UNCHANGED <<fixed_vars, ctx_vars, stopped_at, failed_audits>>

\* agent lines 149-183: the backend call ends and run returns
WorkerReturn ==
    /\ pc = "inflight"
    /\ \E r \in BackendResponses :
          LET res == run(notes_to_critique[idx], r)
          IN /\ response' = r
             /\ failed_audits' = IF res.critique_output = NoneVal
                                 THEN failed_audits \cup {notes_to_critique[idx]}
                                 ELSE failed_audits \ {notes_to_critique[idx]}
             /\ IF res.raised # NoneStr
                THEN \* the exception leaves run and critique_all_notes
                     /\ pc' = "done"
                     /\ outcome' = [returned |-> NoneStr, raised |-> res.raised]
                     /\ UNCHANGED <<critique_output, scratchpad_update, worker_results>>
                ELSE /\ critique_output' = res.critique_output
                     /\ scratchpad_update' = res.scratchpad_update
                     /\ worker_results' = Append(worker_results, res)
                     /\ pc' = "apply"
                     /\ UNCHANGED outcome
    /\ UNCHANGED <<mission_exists, store_vars, mission_running, mission_context,
                   notes_to_critique, scratchpad, idx, processed_count,
                   worker_calls, scratchpad_at_load>>
    /\ UNCHANGED <<fixed_vars, ctx_vars, backend_calls, stopped_at>>

\* variant: revise_needed overrides the verdict
verification_call_revise_flag(note_id, c) ==
    [op |-> "update_note_verification", note_id |-> note_id,
     status |-> IF c.revise_needed = "true" THEN REVISE ELSE c.verification_status,
     feedback |-> c.overall_assessment, critique_result |-> c]

\* variant: the scratchpad update is passed as feedback
verification_call_wrong_feedback(note_id, c) ==
    [op |-> "update_note_verification", note_id |-> note_id,
     status |-> c.verification_status, feedback |-> c.scratchpad_update,
     critique_result |-> c]

\* lines 66-72: the arguments of the update_note_verification call
verification_call(note_id, c) ==
    [op |-> "update_note_verification", note_id |-> note_id,
     status |-> c.verification_status, feedback |-> c.overall_assessment,
     critique_result |-> c]

\* line 78
next_processed_count(count) == count + 1

\* variant: an audit without result is tried again
ApplyCritique_retries_failure ==
    /\ pc = "apply"
    /\ IF critique_output # NoneVal
       THEN LET call == verification_call(notes_to_critique[idx], critique_output)
            IN /\ notes' = update_note_verification(notes, call.note_id, call.status,
                                call.feedback, call.critique_result)
               /\ store_calls' = Append(store_calls, call)
               /\ pc' = "scratch"
               /\ UNCHANGED <<idx, processed_count>>
       ELSE /\ pc' = "call"
            /\ UNCHANGED <<idx, processed_count, notes, store_calls>>
    /\ UNCHANGED <<mission_exists, store_scratchpad, execution_log, mission_running,
                   mission_context, notes_to_critique, scratchpad,
                   response, critique_output, scratchpad_update, worker_calls,
                   worker_results, scratchpad_at_load, outcome>>
    /\ UNCHANGED <<fixed_vars, ctx_vars, backend_calls, stopped_at, failed_audits>>

\* variant: processed_count += 1 outside the if of line 65
ApplyCritique_counts_all ==
    /\ pc = "apply"
    /\ IF critique_output # NoneVal
       THEN LET call == verification_call(notes_to_critique[idx], critique_output)
            IN /\ notes' = update_note_verification(notes, call.note_id, call.status,
                                call.feedback, call.critique_result)
               /\ store_calls' = Append(store_calls, call)
               /\ pc' = "scratch"
               /\ UNCHANGED <<idx, processed_count>>
       ELSE /\ idx' = idx + 1
            /\ pc' = "poll"
            /\ processed_count' = next_processed_count(processed_count)
            /\ UNCHANGED <<notes, store_calls>>
    /\ UNCHANGED <<mission_exists, store_scratchpad, execution_log, mission_running,
                   mission_context, notes_to_critique, scratchpad,
                   response, critique_output, scratchpad_update, worker_calls,
                   worker_results, scratchpad_at_load, outcome>>
    /\ UNCHANGED <<fixed_vars, ctx_vars, backend_calls, stopped_at, failed_audits>>

\* variant: an audit without result ends the loop
ApplyCritique_failure_breaks ==
    /\ pc = "apply"
    /\ IF critique_output # NoneVal
       THEN LET call == verification_call(notes_to_critique[idx], critique_output)
            IN /\ notes' = update_note_verification(notes, call.note_id, call.status,
                                call.feedback, call.critique_result)
               /\ store_calls' = Append(store_calls, call)
               /\ pc' = "scratch"
               /\ UNCHANGED idx
       ELSE /\ idx' = idx + 1
            /\ pc' = "summary"
            /\ UNCHANGED <<notes, store_calls>>
    /\ UNCHANGED <<mission_exists, store_scratchpad, execution_log, mission_running,
                   mission_context, notes_to_critique, scratchpad, processed_count,
                   response, critique_output, scratchpad_update, worker_calls,
                   worker_results, scratchpad_at_load, outcome>>
    /\ UNCHANGED <<fixed_vars, ctx_vars, backend_calls, stopped_at, failed_audits>>

\* variant: the result of an audit is dropped when the mission was stopped
\* while it ran
ApplyCritique_rechecks_status ==
    /\ pc = "apply"
    /\ IF critique_output # NoneVal /\ check_mission_status_async
       THEN LET call == verification_call(notes_to_critique[idx], critique_output)
            IN /\ notes' = update_note_verification(notes, call.note_id, call.status,
                                call.feedback, call.critique_result)
               /\ store_calls' = Append(store_calls, call)
               /\ pc' = "scratch"
               /\ UNCHANGED idx
       ELSE /\ idx' = idx + 1
            /\ pc' = "poll"
            /\ UNCHANGED <<notes, store_calls>>
    /\ UNCHANGED <<mission_exists, store_scratchpad, execution_log, mission_running,
                   mission_context, notes_to_critique, scratchpad, processed_count,
                   response, critique_output, scratchpad_update, worker_calls,
                   worker_results, scratchpad_at_load, outcome>>
    /\ UNCHANGED <<fixed_vars, ctx_vars, backend_calls, stopped_at, failed_audits>>

\* lines 65-72: if critique_output, persist the note's verification
ApplyCritique ==
    /\ pc = "apply"
    /\ IF critique_output # NoneVal
       THEN LET call == verification_call(notes_to_critique[idx], critique_output)
            IN /\ notes' = update_note_verification(notes, call.note_id, call.status,
                                call.feedback, call.critique_result)
               /\ store_calls' = Append(store_calls, call)
               /\ pc' = "scratch"
               /\ UNCHANGED idx
       ELSE /\ idx' = idx + 1
            /\ pc' = "poll"
            /\ UNCHANGED <<notes, store_calls>>
    /\ UNCHANGED <<mission_exists, store_scratchpad, execution_log, mission_running,
                   mission_context, notes_to_critique, scratchpad, processed_count,
                   response, critique_output, scratchpad_update, worker_calls,
                   worker_results, scratchpad_at_load, outcome>>
    /\ UNCHANGED <<fixed_vars, ctx_vars, backend_calls, stopped_at, failed_audits>>

\* variant: the local scratchpad is never refreshed
next_scratchpad_stale(current, update) == current

\* variant: scratchpad = scratchpad_update outside the inner if
next_scratchpad_always(current, update) == update

\* lines 74-76: the scratchpad handed to the next audit
next_scratchpad(current, update) == IF truthy_str(update) THEN update ELSE current

\* lines 74-78, entered when update_note_verification has returned. With a
\* scratchpad update, update_scratchpad is issued and the coroutine waits for
\* it at line 75; without one there is nothing to wait for: the note is
\* counted and the loop goes on.
UpdateScratchpad ==
    /\ pc = "scratch"
    /\ IF truthy_str(scratchpad_update)
       THEN /\ store_scratchpad' = scratchpad_update
            /\ store_calls' = Append(store_calls,
                  [op |-> "update_scratchpad", text |-> scratchpad_update])
            /\ pc' = "scratch_wait"
            /\ UNCHANGED <<scratchpad, processed_count, idx>>
       ELSE /\ scratchpad' = next_scratchpad(scratchpad, scratchpad_update)
            /\ processed_count' = next_processed_count(processed_count)
            /\ idx' = idx + 1
            /\ pc' = "poll"
            /\ UNCHANGED <<store_scratchpad, store_calls>>
    /\ UNCHANGED <<mission_exists, notes, execution_log, mission_running,
                   mission_context, notes_to_critique, response, critique_output,
                   scratchpad_update, worker_calls, worker_results,
                   scratchpad_at_load, outcome>>
    /\ UNCHANGED <<fixed_vars, ctx_vars, backend_calls, stopped_at, failed_audits>>

\* lines 76-78: update_scratchpad has returned; the local scratchpad follows,
\* the note is counted
ScratchpadUpdated ==
    /\ pc = "scratch_wait"
    /\ scratchpad' = next_scratchpad(scratchpad, scratchpad_update)
    /\ processed_count' = next_processed_count(processed_count)
    /\ idx' = idx + 1
    /\ pc' = "poll"
    /\ UNCHANGED <<mission_exists, store_vars, mission_running,
                   mission_context, notes_to_critique, response, critique_output,
                   scratchpad_update, worker_calls, worker_results,
                   scratchpad_at_load, outcome>>
    /\ UNCHANGED <<fixed_vars, ctx_vars, backend_calls, stopped_at, failed_audits>>

\* line 82: f"Critiqued {processed_count} notes."
output_summary(count) == [prefix |-> "Critiqued", count |-> count, suffix |-> "notes."]

\* lines 80-85: log_execution_step is issued with the batch summary, and the
\* coroutine waits for it
LogSummary ==
    /\ pc = "summary"
    /\ LET entry == [op |-> "log_execution_step", agent |-> "NoteCriticManager",
                     action |-> "Batch Critique",
                     output_summary |-> output_summary(processed_count),
                     status |-> "success"]
       IN /\ execution_log' = Append(execution_log, entry)
          /\ store_calls' = Append(store_calls, entry)
    /\ pc' = "summary_wait"
    /\ UNCHANGED <<mission_exists, notes, store_scratchpad, mission_running,
                   local_vars, worker_calls, worker_results, outcome>>
    /\ UNCHANGED <<fixed_vars, ctx_vars, backend_calls, stopped_at, failed_audits>>

\* line 85: log_execution_step has returned, and so does critique_all_notes
Return ==
    /\ pc = "summary_wait"
    /\ outcome' = ReturnedNone
    /\ pc' = "done"
    /\ UNCHANGED <<mission_exists, store_vars, mission_running,
                   local_vars, worker_calls, worker_results>>
    /\ UNCHANGED <<fixed_vars, ctx_vars, backend_calls, stopped_at, failed_audits>>

\* The mission is stopped from outside while the batch runs.
StopMission ==
    /\ pc \notin {"start", "done"}
    /\ mission_running
    /\ mission_running' = FALSE
    /\ stopped_at' = [pc |-> pc, idx |-> idx]
    /\ UNCHANGED <<mission_exists, store_vars, pc, local_vars, worker_calls,
                   worker_results, outcome>>
    /\ UNCHANGED <<fixed_vars, ctx_vars, backend_calls, failed_audits>>

Next ==
    \/ Load
    \/ Poll
    \/ InvokeWorker
    \/ WorkerReturn
    \/ ApplyCritique
    \/ UpdateScratchpad
    \/ ScratchpadUpdated
    \/ LogSummary
    \/ Return
    \/ StopMission

Spec == Init /\ [][Next]_vars

\* ------------------------------------------------- a batch run that goes on
\* One step of the coroutine. Every call it awaits (the backend call, the
\* store calls, the status check) returns, so the event loop resumes it: a
\* step that can be taken is taken. Nothing obliges the mission to be stopped.
Step ==
    \/ Load
    \/ Poll
    \/ InvokeWorker
    \/ WorkerReturn
    \/ ApplyCritique
    \/ UpdateScratchpad
    \/ ScratchpadUpdated
    \/ LogSummary
    \/ Return

InitLive ==
    /\ InitFor(NumNotesLive)
    /\ store_goals = <<>>
    /\ store_thoughts = <<>>

SpecLive == InitLive /\ [][Next]_vars /\ WF_vars(Step)

\* ------------------------------------------ serialized batch runs, crashes
\* The process dies inside a batch run, between any two of its steps; what
\* was written to the store stays.
Crash ==
    /\ pc \in {"poll", "call", "inflight", "apply", "scratch", "scratch_wait",
              "summary", "summary_wait"}
    /\ pc' = "crashed"
    /\ outcome' = [returned |-> NoneStr, raised |-> "Crash"]
    /\ UNCHANGED <<mission_exists, store_vars, mission_running, local_vars,
                   worker_calls, worker_results>>
    /\ UNCHANGED <<fixed_vars, ctx_vars, backend_calls, stopped_at, failed_audits>>

\* The caller invokes critique_all_notes again on the same mission, after the
\* previous run has ended.
NextRun ==
    /\ pc \in {"done", "crashed"}
    /\ mission_exists
    /\ run_no < MaxRuns
    /\ run_no' = run_no + 1
    /\ pc' = "start"
    /\ mission_running' = TRUE
    /\ store_calls' = <<>>
    /\ mission_context' = <<>>
    /\ notes_to_critique' = <<>>
    /\ scratchpad' = NoneStr
    /\ idx' = 0
    /\ processed_count' = 0
    /\ response' = RespNone
    /\ critique_output' = NoneVal
    /\ scratchpad_update' = NoneStr
    /\ worker_calls' = <<>>
    /\ worker_results' = <<>>
    /\ scratchpad_at_load' = NoneStr
    /\ outcome' = Pending
    /\ active_goals' = <<>>
    /\ active_thoughts' = <<>>
    /\ backend_calls' = 0
    /\ stopped_at' = NeverStopped
    /\ UNCHANGED <<mission_exists, notes, store_scratchpad, execution_log,
                   store_goals, store_thoughts, failed_audits, rt>>

NextRuns ==
    \/ Next
    \/ Crash
    \/ NextRun

InitRuns ==
    /\ InitFor(NumNotesRuns)
    /\ mission_exists
    /\ store_goals = <<>>
    /\ store_thoughts = <<>>

SpecRuns == InitRuns /\ [][NextRuns]_vars

\* --------------------------------- extraction of one serialized critique
\* a text field whose value holds a fenced block, e.g. a quoted snippet
TextWithFence == "text with a fenced {x} in it"
\* what the backticks of TextWithFence enclose, as an object
InnerObj == RawObj(Absent, Absent, Absent, Absent, Absent, "x")

\* well-formed critiques
Critiques ==
    [note_id : {"n1", "n2"}, overall_assessment : {"A1", TextWithFence},
     accuracy_score : {"0.9"}, source_alignment : {"aligned"},
     revise_needed : {"true", "false"}, verification_status : VerificationStatus,
     scratchpad_update : {"", "S1"}, hallucinations_detected : {<<>>}]

\* the mapping a parser reads back from the JSON text of a critique
AsMapping(c) ==
    RawObj(c.note_id, c.overall_assessment, c.revise_needed, c.verification_status,
           c.scratchpad_update, Absent)

\* the JSON text of a critique
Serialize(c) ==
    IF c.overall_assessment = TextWithFence
    THEN <<TokHead(AsMapping(c)), TokFence, TokObj(InnerObj), TokFence,
           TokTail(AsMapping(c))>>
    ELSE <<TokObj(AsMapping(c))>>

Wraps == {"bare", "fenced", "fenced_json"}

\* the reply: the text as it is, or inside a fenced block
Wrap(w, text) ==
    IF w = "fenced" THEN <<TokFence>> \o text \o <<TokFence>>
    ELSE IF w = "fenced_json" THEN <<TokFence, TokLang>> \o text \o <<TokFence>>
    ELSE text

InitRoundTrip ==
    /\ rt \in [stage : {"critique"}, c : Critiques, wrap : Wraps]
    /\ mission_exists = FALSE
    /\ notes = <<>>
    /\ store_scratchpad = ""
    /\ execution_log = <<>>
    /\ store_calls = <<>>
    /\ mission_running = TRUE
    /\ pc = "done"
    /\ mission_context = <<>>
    /\ notes_to_critique = <<>>
    /\ scratchpad = NoneStr
    /\ idx = 0
    /\ processed_count = 0
    /\ response = RespNone
    /\ critique_output = NoneVal
    /\ scratchpad_update = NoneStr
    /\ worker_calls = <<>>
    /\ worker_results = <<>>
    /\ scratchpad_at_load = NoneStr
    /\ outcome = Pending
    /\ store_goals = <<>>
    /\ store_thoughts = <<>>
    /\ active_goals = <<>>
    /\ active_thoughts = <<>>
    /\ backend_calls = 0
    /\ stopped_at = NeverStopped
    /\ failed_audits = {}
    /\ run_no = 1

rt_frame ==
    UNCHANGED <<mission_exists, store_vars, mission_running, pc, local_vars,
                worker_calls, worker_results, outcome, store_goals, store_thoughts,
                ctx_vars, backend_calls, stopped_at, failed_audits, run_no>>

\* the backend's reply holds the serialized critique
SerializeReply ==
    /\ rt.stage = "critique"
    /\ rt' = [stage |-> "reply", c |-> rt.c, wrap |-> rt.wrap,
              content |-> Wrap(rt.wrap, Serialize(rt.c))]
    /\ rt_frame

\* agent lines 157-173 on that reply, for the note the critique is about
ExtractReply ==
    /\ rt.stage = "reply"
    /\ rt' = [stage |-> "result", c |-> rt.c, wrap |-> rt.wrap,
              content |-> rt.content,
              result |-> run(rt.c.note_id, RespOk(rt.content)).critique_output]
    /\ rt_frame

NextRoundTrip ==
    \/ SerializeReply
    \/ ExtractReply

SpecRoundTrip == InitRoundTrip /\ [][NextRoundTrip]_vars

TypeOK ==
    /\ pc \in {"start", "poll", "call", "inflight", "apply", "scratch",
              "scratch_wait", "summary", "summary_wait", "done"}
    /\ processed_count \in 0..NumNotes
    /\ idx \in 0..(NumNotes + 1)

\* ----------------------------------------------------- reading the state
StoreNote(id) == notes[CHOOSE i \in DOMAIN notes : notes[i].note_id = id]
LoadedNote(id) ==
    mission_context[CHOOSE i \in DOMAIN mission_context : mission_context[i].note_id = id]

NumSelected == Len(notes_to_critique)

\* an exception has left critique_all_notes
Aborted == outcome.raised # NoneStr

\* audits that have returned a critique / nothing
HasCritique(i) == worker_results[i].critique_output # NoneVal

\* the i-th audit has returned and the loop body has dealt with its result
Handled(i) == i < idx \/ (i = idx /\ pc \in {"scratch", "scratch_wait"})

VerificationCalls ==
    {k \in DOMAIN store_calls : store_calls[k].op = "update_note_verification"}
VerificationCallsFor(id) == {k \in VerificationCalls : store_calls[k].note_id = id}
SummaryCalls == {k \in DOMAIN store_calls : store_calls[k].op = "log_execution_step"}

\* the loop was left by the break of line 48, before the note at idx
StoppedByCancellation ==
    /\ pc \in {"summary", "summary_wait", "done"}
    /\ ~Aborted /\ idx >= 1 /\ idx <= NumSelected

\* responses for which the audit is inconclusive
FailingResponses ==
    { RespRaise, RespNone, RespNoChoices, RespOk(<<>>), RespOk(<<TokJunk>>),
      RespOk(<<TokObj(ObjMissingStatus)>>),
      RespOk(<<TokFence, TokObj(ObjBadEnum), TokFence>>) }

\* ------------------------------------------------------------------ claims

\* C1: in a batch run that was not cancelled and in which the worker returned
\* for every selected note, the notes whose audit returned nothing (the set F)
\* are still UNCHECKED at the end, every other selected
\* note carries the verification status of its own critique, and the count of
\* the batch summary is the number of selected notes minus |F|.
C1_PartialFailureIsolation ==
    (pc = "done" /\ mission_exists /\ mission_running /\ ~Aborted) =>
        /\ Len(worker_results) = NumSelected
        /\ Len(execution_log) = 1
        /\ LET F == {i \in 1..NumSelected : ~HasCritique(i)}
           IN /\ \A i \in 1..NumSelected :
                    StoreNote(notes_to_critique[i]).verification_status =
                       IF i \in F THEN UNCHECKED
                       ELSE worker_results[i].critique_output.verification_status
              /\ execution_log[1].output_summary.count = NumSelected - Cardinality(F)

C1_Witness ==
    /\ pc = "done" /\ mission_exists /\ mission_running
    /\ NumSelected >= 3
    /\ Len(worker_results) = NumSelected
    /\ ~HasCritique(2)
    /\ HasCritique(1) /\ HasCritique(3)
    /\ StoreNote(notes_to_critique[2]).verification_status = UNCHECKED
    /\ execution_log[1].output_summary.count = NumSelected - 1

\* C2 as claimed: every critique the orchestrator applies leaves the note
\* PASSED or REVISE, and the count of the batch summary is the number of notes
\* whose status left UNCHECKED during the run.
C2_Original ==
    /\ \A k \in VerificationCalls :
          StoreNote(store_calls[k].note_id).verification_status \in {PASSED, REVISE}
    /\ (pc = "done" /\ mission_exists /\ execution_log # <<>>) =>
          execution_log[1].output_summary.count =
             Cardinality({i \in DOMAIN notes :
                 /\ mission_context[i].verification_status = UNCHECKED
                 /\ notes[i].verification_status # UNCHECKED})

\* C2 (amended): every critique the orchestrator applies leaves the note with
\* the critique's own verification_status, which is PASSED, REVISE or
\* UNCHECKED; the count of the batch summary is the number of critiques
\* applied in the run, which is at least the number of notes whose status
\* left UNCHECKED, and those notes are the ones with a PASSED or REVISE verdict.
C2_AppliedStatusIsVerdict ==
    /\ \A i \in 1..Len(worker_results) : (Handled(i) /\ HasCritique(i)) =>
          LET st == StoreNote(worker_calls[i].note_id).verification_status
          IN /\ st = worker_results[i].critique_output.verification_status
             /\ st \in VerificationStatus
             /\ (st # UNCHECKED) <=> (st \in {PASSED, REVISE})
    /\ (pc = "done" /\ mission_exists /\ execution_log # <<>>) =>
          LET left == {i \in DOMAIN notes :
                          /\ mission_context[i].verification_status = UNCHECKED
                          /\ notes[i].verification_status # UNCHECKED}
              count == execution_log[1].output_summary.count
          IN /\ count = Cardinality({i \in 1..Len(worker_results) : HasCritique(i)})
             /\ count >= Cardinality(left)

C2_Witness ==
    /\ pc = "done" /\ mission_exists
    /\ Len(worker_results) >= 2
    /\ HasCritique(1) /\ HasCritique(2)
    /\ worker_results[1].critique_output.verification_status = UNCHECKED
    /\ worker_results[2].critique_output.verification_status = PASSED
    /\ StoreNote(worker_calls[1].note_id).verification_status = UNCHECKED
    /\ execution_log[1].output_summary.count = 2

\* C3: a status check that finds the mission stopped ends the loop without
\* touching anything, and when the loop was ended that way before the note at
\* position k+1, the worker was invoked on exactly the first k selected notes,
\* those with a critique carry it (status and one history entry, no rollback),
\* and the notes from k+1 on are as they were loaded: UNCHECKED, never audited.
C3_StopStep ==
    (pc = "poll" /\ idx <= NumSelected /\ ~mission_running /\ pc' # pc) =>
        /\ pc' = "summary"
        /\ worker_calls' = worker_calls
        /\ notes' = notes
        /\ idx' = idx

C3_StoppedState ==
    StoppedByCancellation =>
        LET k == idx - 1
        IN /\ Len(worker_calls) = k
           /\ Len(worker_results) = k
           /\ \A i \in 1..k : worker_calls[i].note_id = notes_to_critique[i]
           /\ \A i \in 1..k :
                 LET n == StoreNote(notes_to_critique[i])
                 IN IF HasCritique(i)
                    THEN /\ n.verification_status =
                               worker_results[i].critique_output.verification_status
                         /\ n.critique_results = <<worker_results[i].critique_output>>
                    ELSE n = LoadedNote(notes_to_critique[i])
           /\ \A i \in (k+1)..NumSelected :
                 LET n == StoreNote(notes_to_critique[i])
                 IN /\ n.verification_status = UNCHECKED
                    /\ n = LoadedNote(notes_to_critique[i])
                    /\ VerificationCallsFor(notes_to_critique[i]) = {}

C3_CancellationMidBatch == [][C3_StopStep]_vars /\ []C3_StoppedState

C3_Witness ==
    /\ pc = "done" /\ ~mission_running
    /\ NumSelected = 3 /\ idx = 3
    /\ HasCritique(1) /\ HasCritique(2)
    /\ StoreNote(notes_to_critique[1]).verification_status = PASSED
    /\ StoreNote(notes_to_critique[2]).verification_status = REVISE
    /\ StoreNote(notes_to_critique[3]).verification_status = UNCHECKED

\* C4: the worker is only ever invoked on notes that were UNCHECKED in the
\* loaded mission context; a note that was PASSED or REVISE then is never
\* audited, is never the target of a store update, and keeps its status, its
\* feedback and its critique history.
C4_OnlyUncheckedAudited ==
    /\ \A k \in DOMAIN worker_calls :
          LoadedNote(worker_calls[k].note_id).verification_status = UNCHECKED
    /\ \A i \in DOMAIN mission_context :
          mission_context[i].verification_status # UNCHECKED =>
             /\ \A k \in DOMAIN worker_calls :
                   worker_calls[k].note_id # mission_context[i].note_id
             /\ VerificationCallsFor(mission_context[i].note_id) = {}
             /\ notes[i] = mission_context[i]

C4_Witness ==
    /\ pc = "done"
    /\ Len(mission_context) >= 3
    /\ mission_context[1].verification_status = PASSED
    /\ mission_context[2].verification_status = UNCHECKED
    /\ mission_context[3].verification_status = REVISE
    /\ Len(worker_calls) = 1 /\ Len(worker_results) = 1
    /\ HasCritique(1)
    /\ notes[2].verification_status = REVISE
    /\ notes[1] = mission_context[1] /\ notes[3] = mission_context[3]

\* C5: every critique an audit returns carries the id of the note that was
\* passed to the worker, whatever note_id the reply had (none, the same, a
\* different one); so do the critique of every update_note_verification call
\* and every critique in a note's history.
C5_NoteIdOverride ==
    /\ \A i \in 1..Len(worker_results) : HasCritique(i) =>
          worker_results[i].critique_output.note_id = worker_calls[i].note_id
    /\ \A k \in VerificationCalls :
          store_calls[k].critique_result.note_id = store_calls[k].note_id
    /\ \A i \in DOMAIN notes : \A j \in DOMAIN notes[i].critique_results :
          notes[i].critique_results[j].note_id = notes[i].note_id

C5_Witness ==
    /\ pc = "scratch"
    /\ response = RespOk(<<TokFence, TokLang, TokObj(ObjRevise), TokFence>>)
    /\ ObjRevise.note_id = ForeignId
    /\ notes_to_critique[idx] # ForeignId
    /\ critique_output.note_id = notes_to_critique[idx]
    /\ StoreNote(notes_to_critique[idx]).critique_results = <<critique_output>>

\* C6: the scratchpad passed to the worker for the i-th selected note is the
\* scratchpad_update of the latest earlier audit of the run that returned a
\* critique with a non-empty scratchpad_update, or the scratchpad read from the
\* store at load time when there is none.
C6_Threaded(i) ==
    LET J == {j \in 1..(i-1) :
                 HasCritique(j) /\ worker_results[j].scratchpad_update # ""}
    IN IF J = {} THEN scratchpad_at_load
       ELSE worker_results[CHOOSE j \in J : \A m \in J : m <= j].scratchpad_update

C6_ScratchpadFold ==
    \A i \in 1..Len(worker_calls) :
        /\ worker_calls[i].note_id = notes_to_critique[i]
        /\ worker_calls[i].agent_scratchpad = C6_Threaded(i)

C6_Witness ==
    /\ Len(worker_calls) = 3
    /\ scratchpad_at_load = "S0"
    /\ worker_calls[1].agent_scratchpad = "S0"
    /\ HasCritique(1) /\ worker_results[1].scratchpad_update = "S1"
    /\ worker_calls[2].agent_scratchpad = "S1"
    /\ HasCritique(2) /\ worker_results[2].scratchpad_update = ""
    /\ worker_calls[3].agent_scratchpad = "S1"

\* C7 as claimed: when the mission does not exist, critique_all_notes ends
\* with an explicit failure, an outcome different from the one of a batch run
\* that completed normally.
C7_MissionNotFoundSurfaced ==
    (pc = "done" /\ ~mission_exists) => outcome # ReturnedNone

\* C8: when the backend call raises, gives no reply, no choice or empty
\* content, or the reply does not parse or does not validate, run returns no
\* critique and no scratchpad update, no exception leaves it, and the audited
\* note is UNCHECKED and unchanged once the loop body has dealt with the result.
C8_WorkerErrorBoundary ==
    /\ outcome.raised = NoneStr
    /\ (pc = "apply" /\ response \in FailingResponses) =>
          /\ critique_output = NoneVal
          /\ scratchpad_update = NoneStr
          /\ worker_results[idx] = NoResult
    /\ \A i \in 1..Len(worker_results) : ~HasCritique(i) =>
          /\ worker_results[i].scratchpad_update = NoneStr
          /\ StoreNote(worker_calls[i].note_id).verification_status = UNCHECKED
          /\ StoreNote(worker_calls[i].note_id) = LoadedNote(worker_calls[i].note_id)

C8_Witness ==
    /\ pc = "poll" /\ idx = 2
    /\ response = RespOk(<<TokObj(ObjMissingStatus)>>)
    /\ worker_results[1] = NoResult
    /\ StoreNote(notes_to_critique[1]).verification_status = UNCHECKED
    /\ outcome = Pending

\* C9: a batch run on an existing mission records no batch summary before
\* its loop is over and exactly one by the time it ends; that entry is the last store call of the
\* run, after every note update, whether the loop was exhausted or left on
\* cancellation, and its count is the number of critiques applied in the run.
C9_BatchSummary ==
    /\ (mission_exists /\ pc \notin {"summary_wait", "done"}) =>
          (SummaryCalls = {} /\ execution_log = <<>>)
    /\ (mission_exists /\ pc \in {"summary_wait", "done"}) =>
          /\ Len(execution_log) = 1
          /\ SummaryCalls = {Len(store_calls)}
          /\ execution_log[1] = store_calls[Len(store_calls)]
          /\ execution_log[1].output_summary =
                [prefix |-> "Critiqued", count |-> Cardinality(VerificationCalls),
                 suffix |-> "notes."]
          /\ Cardinality(VerificationCalls) =
                Cardinality({i \in 1..Len(worker_results) : HasCritique(i)})

C9_Witness ==
    /\ pc = "done" /\ mission_exists
    /\ StoppedByCancellation
    /\ Len(worker_results) = 2
    /\ HasCritique(1) /\ ~HasCritique(2)
    /\ execution_log[1].output_summary.count = 1
    /\ SummaryCalls = {Len(store_calls)}

\* C10: for each audit the loop body has dealt with: if it returned a critique,
\* exactly one update_note_verification call was issued for the note, with the
\* critique's verification_status, its overall_assessment as feedback and the
\* critique itself, and the note has that status, that feedback and the one
\* critique appended to its history; if it returned nothing, no update was
\* issued for the note and the note is as it was loaded.
C10_ApplyingCritique ==
    \A i \in 1..Len(worker_results) : Handled(i) =>
        LET id == worker_calls[i].note_id
            c == worker_results[i].critique_output
            n == StoreNote(id)
        IN IF HasCritique(i)
           THEN /\ Cardinality(VerificationCallsFor(id)) = 1
                /\ \A k \in VerificationCallsFor(id) :
                      /\ store_calls[k].status = c.verification_status
                      /\ store_calls[k].feedback = c.overall_assessment
                      /\ store_calls[k].critique_result = c
                /\ n.verification_status = c.verification_status
                /\ n.verification_feedback = c.overall_assessment
                /\ n.critique_results = Append(LoadedNote(id).critique_results, c)
           ELSE /\ VerificationCallsFor(id) = {}
                /\ n = LoadedNote(id)

C10_Witness ==
    /\ pc = "done"
    /\ NumSelected = 2 /\ Len(worker_results) = 2
    /\ HasCritique(1) /\ ~HasCritique(2)
    /\ response = RespOk(<<>>)
    /\ StoreNote(notes_to_critique[1]).verification_status = PASSED
    /\ StoreNote(notes_to_critique[1]).verification_feedback = "A1"
    /\ Len(StoreNote(notes_to_critique[1]).critique_results) = 1
    /\ StoreNote(notes_to_critique[2]).verification_status = UNCHECKED
    /\ StoreNote(notes_to_critique[2]).critique_results = <<>>
    /\ execution_log[1].output_summary.count = 1

\* ------------------------------------------------------ claims, continued
HasBlock(prompt, name) == \E k \in DOMAIN prompt : prompt[k].block = name
BlocksNamed(prompt, name) == {k \in DOMAIN prompt : prompt[k].block = name}

\* C12 as claimed: in the prompt of every audit each of the three context
\* blocks (active goals, recent thoughts, scratchpad) is present if and only if
\* its input is non-empty.
C12_Original ==
    \A k \in DOMAIN worker_calls :
        LET w == worker_calls[k]
        IN /\ HasBlock(w.prompt, "active_goals") <=> (w.active_goals # <<>>)
           /\ HasBlock(w.prompt, "recent_thoughts") <=> (w.active_thoughts # <<>>)
           /\ HasBlock(w.prompt, "scratchpad") <=> (w.agent_scratchpad \notin {"", NoneStr})

\* C12 (amended): the recent-thoughts block and the scratchpad block are in
\* the prompt if and only if their input is non-empty; the active-goals block
\* is always in the prompt, once, listing the goals when there are some and
\* holding the single line "None" when there is none.
C12_ContextBlocks ==
    \A k \in DOMAIN worker_calls :
        LET w == worker_calls[k]
        IN /\ HasBlock(w.prompt, "recent_thoughts") <=> (w.active_thoughts # <<>>)
           /\ HasBlock(w.prompt, "scratchpad") <=> (w.agent_scratchpad \notin {"", NoneStr})
           /\ Cardinality(BlocksNamed(w.prompt, "active_goals")) = 1
           /\ \A b \in BlocksNamed(w.prompt, "active_goals") :
                 IF w.active_goals = <<>>
                 THEN w.prompt[b].body = <<PromptLine(FALSE, "None")>>
                 ELSE /\ Len(w.prompt[b].body) = Len(w.active_goals)
                      /\ \A i \in DOMAIN w.active_goals :
                            w.prompt[b].body[i] = PromptLine(TRUE, w.active_goals[i])
           /\ \A b \in BlocksNamed(w.prompt, "scratchpad") :
                 w.prompt[b].body = <<PromptLine(FALSE, w.agent_scratchpad)>>

C12_Witness ==
    /\ Len(worker_calls) = 2
    /\ worker_calls[1].active_goals = <<>>
    /\ worker_calls[1].active_thoughts = <<>>
    /\ worker_calls[1].agent_scratchpad = ""
    /\ Len(worker_calls[1].prompt) = 4
    /\ HasBlock(worker_calls[1].prompt, "active_goals")
    /\ worker_calls[2].agent_scratchpad = "S1"
    /\ HasBlock(worker_calls[2].prompt, "scratchpad")
    /\ ~HasBlock(worker_calls[2].prompt, "recent_thoughts")

\* C11: over serialized batch runs, crashed runs included, a note that is
\* PASSED or REVISE is never passed to the worker again and its record in the
\* store (status, feedback, history) never changes again; a note whose latest
\* audit returned nothing is UNCHECKED and is among the notes every later run
\* selects.
C11_Step ==
    \A i \in DOMAIN notes :
        notes[i].verification_status \in {PASSED, REVISE} =>
            /\ notes'[i] = notes[i]
            /\ Len(worker_calls') > Len(worker_calls) =>
                  worker_calls'[Len(worker_calls')].note_id # notes[i].note_id

C11_State ==
    /\ \A id \in failed_audits : StoreNote(id).verification_status = UNCHECKED
    /\ (mission_exists /\ pc # "start") =>
          \A id \in failed_audits :
              \E k \in DOMAIN notes_to_critique : notes_to_critique[k] = id

C11_SerializedRuns == [][C11_Step]_vars /\ []C11_State

\* a second run, after a first one that crashed between n1's
\* update_note_verification and update_scratchpad: n1 is not selected again,
\* n2 is audited, and its audit fails
C11_Witness ==
    /\ run_no = 2 /\ pc = "apply"
    /\ execution_log = <<>>
    /\ StoreNote("n1").verification_status = PASSED
    /\ Len(StoreNote("n1").critique_results) = 1
    /\ StoreNote("n1").critique_results[1].scratchpad_update = "S1"
    /\ store_scratchpad # "S1"
    /\ \A k \in DOMAIN notes_to_critique : notes_to_critique[k] # "n1"
    /\ "n2" \in failed_audits
    /\ Len(worker_calls) = 1 /\ worker_calls[1].note_id = "n2"
    /\ critique_output = NoneVal

\* C13 as claimed: a well-formed critique, serialized to JSON, bare or
\* inside a fenced block, comes out of the extraction path equal to itself.
C13_RoundTrip ==
    rt.stage = "result" => rt.result = rt.c

\* what holds: the critiques whose text holds no backticks come back equal
C13_RoundTripPlainText ==
    (rt.stage = "result" /\ rt.c.overall_assessment # TextWithFence) => rt.result = rt.c

\* C14: a step of the loop body on an audit that returned nothing changes
\* neither the notes, nor the persisted scratchpad, nor the local scratchpad,
\* nor the processed count, issues no store call, and moves the loop to the
\* status check of the next selected note; the return of such an audit itself
\* changes nothing in the store either.
C14_Step ==
    /\ (pc = "apply" /\ critique_output = NoneVal /\ pc' # pc) =>
          /\ notes' = notes
          /\ store_scratchpad' = store_scratchpad
          /\ store_calls' = store_calls
          /\ execution_log' = execution_log
          /\ scratchpad' = scratchpad
          /\ processed_count' = processed_count
          /\ idx' = idx + 1
          /\ pc' = "poll"
    /\ (pc = "inflight" /\ Len(worker_results') > Len(worker_results)
           /\ critique_output' = NoneVal) =>
          /\ pc' = "apply"
          /\ notes' = notes
          /\ store_scratchpad' = store_scratchpad
          /\ store_calls' = store_calls
          /\ scratchpad' = scratchpad
          /\ processed_count' = processed_count

C14_FailedAuditFrame == [][C14_Step]_vars

C14_Witness ==
    /\ Len(worker_calls) = 2
    /\ ~HasCritique(1)
    /\ worker_calls[2].note_id = notes_to_critique[2]
    /\ worker_calls[2].agent_scratchpad = scratchpad_at_load
    /\ processed_count = 0
    /\ store_calls = <<>>
    /\ StoreNote(notes_to_critique[1]) = LoadedNote(notes_to_critique[1])
    /\ store_scratchpad = scratchpad_at_load

\* C15: when the store has no context for the mission, critique_all_notes
\* never invokes the worker, issues no backend call and no store call, and
\* leaves the store (notes, scratchpad, execution log) as it was.
C15_Step ==
    ~mission_exists =>
        /\ notes' = notes
        /\ store_scratchpad' = store_scratchpad
        /\ execution_log' = execution_log
        /\ store_calls' = store_calls
        /\ worker_calls' = worker_calls
        /\ backend_calls' = backend_calls
        /\ pc' \in {"start", "done"}

C15_State ==
    ~mission_exists =>
        /\ worker_calls = <<>> /\ backend_calls = 0
        /\ store_calls = <<>>
        /\ pc \in {"start", "done"}

C15_MissionNotFoundFrame == [][C15_Step]_vars /\ []C15_State

C15_Witness ==
    /\ ~mission_exists
    /\ pc = "done"
    /\ outcome = ReturnedNone
    /\ store_calls = <<>> /\ worker_calls = <<>> /\ execution_log = <<>>

\* C16: the status check is made only before a note. When the mission is
\* stopped while the audit of the note at position k is under way (after its
\* status check), the audit runs to its end, its critique, if any, is applied
\* to the note and counted, and the stop ends the loop only at the status
\* check that precedes note k+1.
MidAudit == {"call", "inflight", "apply", "scratch", "scratch_wait"}

C16_Step ==
    /\ (~mission_running /\ pc \in MidAudit /\ pc' # pc) =>
          /\ pc = "call" => pc' = "inflight"
          /\ pc = "inflight" => pc' = "apply"
          /\ pc = "apply" =>
                IF critique_output # NoneVal
                THEN /\ pc' = "scratch"
                     /\ StoreNote(notes_to_critique[idx])'.verification_status =
                           critique_output.verification_status
                ELSE pc' = "poll"
          /\ pc = "scratch" =>
                IF truthy_str(scratchpad_update)
                THEN /\ pc' = "scratch_wait"
                     /\ store_scratchpad' = scratchpad_update
                ELSE /\ pc' = "poll"
                     /\ processed_count' = processed_count + 1
          /\ pc = "scratch_wait" =>
                /\ pc' = "poll"
                /\ processed_count' = processed_count + 1
    /\ (~mission_running /\ pc = "poll" /\ idx <= NumSelected /\ pc' # pc) =>
          pc' = "summary"

C16_State ==
    (stopped_at.pc \in MidAudit /\ pc \in {"summary", "summary_wait", "done"}) =>
        LET k == stopped_at.idx
        IN /\ idx = k + 1
           /\ Len(worker_calls) = k /\ Len(worker_results) = k
           /\ HasCritique(k) =>
                 LET n == StoreNote(notes_to_critique[k])
                 IN /\ n.verification_status =
                          worker_results[k].critique_output.verification_status
                    /\ n.critique_results = <<worker_results[k].critique_output>>
           /\ processed_count = Cardinality({i \in 1..k : HasCritique(i)})

C16_PolledAtNoteBoundaries == [][C16_Step]_vars /\ []C16_State

C16_Witness ==
    /\ pc = "done"
    /\ stopped_at = [pc |-> "inflight", idx |-> 2]
    /\ NumSelected = 3
    /\ Len(worker_calls) = 2
    /\ HasCritique(2)
    /\ StoreNote(notes_to_critique[2]).verification_status = PASSED
    /\ StoreNote(notes_to_critique[3]).verification_status = UNCHECKED
    /\ execution_log[1].output_summary.count = 2

\* C17: at most one audit is under way at any time; the notes passed to the
\* worker so far are, in order, a prefix of the selected list, which lists the
\* UNCHECKED notes in the order of the store; and when the worker is invoked
\* for a note, the status update and the scratchpad update (if any) of every
\* earlier audit of the run have been issued to the store, in that order.
PosInContext(id) ==
    CHOOSE i \in DOMAIN mission_context : mission_context[i].note_id = id

C17_Sequential ==
    /\ Len(worker_calls) <= NumSelected
    /\ Len(worker_calls) - Len(worker_results) =
          (IF pc = "inflight" \/ Aborted THEN 1 ELSE 0)
    /\ backend_calls - Len(worker_results) \in {0, 1}
    /\ \A k \in DOMAIN worker_calls : worker_calls[k].note_id = notes_to_critique[k]
    /\ \A a, b \in DOMAIN notes_to_critique :
          a < b => PosInContext(notes_to_critique[a]) < PosInContext(notes_to_critique[b])
    /\ \A i \in DOMAIN mission_context :
          mission_context[i].verification_status = UNCHECKED =>
             \E a \in DOMAIN notes_to_critique :
                 notes_to_critique[a] = mission_context[i].note_id
    /\ \A i \in 1..(Len(worker_calls) - 1) : HasCritique(i) =>
          \E p \in VerificationCallsFor(worker_calls[i].note_id) :
              /\ store_calls[p].critique_result = worker_results[i].critique_output
              /\ worker_results[i].scratchpad_update # "" =>
                    /\ p + 1 <= Len(store_calls)
                    /\ store_calls[p + 1] =
                          [op |-> "update_scratchpad",
                           text |-> worker_results[i].scratchpad_update]

C17_Witness ==
    /\ pc = "inflight"
    /\ Len(mission_context) >= 3
    /\ mission_context[2].verification_status = PASSED
    /\ notes_to_critique = <<mission_context[1].note_id, mission_context[3].note_id>>
    /\ Len(worker_calls) = 2 /\ Len(worker_results) = 1
    /\ HasCritique(1)
    /\ worker_results[1].scratchpad_update = "S1"
    /\ store_calls[2] = [op |-> "update_scratchpad", text |-> "S1"]

\* C18: within one run no note is passed to the worker twice, every worker
\* invocation issues exactly one backend call, and the number of backend calls
\* is the number of notes the loop has reached, which never exceeds the number
\* of selected notes, whether the audits produced a critique or not.
NotesReached ==
    IF pc \in {"inflight", "apply", "scratch", "scratch_wait"} \/ Aborted THEN idx
    ELSE IF idx = 0 THEN 0
    ELSE idx - 1

C18_NoRetry ==
    /\ backend_calls = Len(worker_calls)
    /\ \A a, b \in DOMAIN worker_calls :
          worker_calls[a].note_id = worker_calls[b].note_id => a = b
    /\ backend_calls = NotesReached
    /\ backend_calls <= NumSelected

C18_Witness ==
    /\ pc = "done"
    /\ StoppedByCancellation
    /\ NumSelected = 3
    /\ backend_calls = 2
    /\ ~HasCritique(1)
    /\ HasCritique(2)

\* C19: at every note boundary of a run that loaded its mission, that is
\* before each status check and each worker invocation and at the summary, the
\* scratchpad held by the store equals the local scratchpad of the run, and
\* the scratchpad handed to the worker is the one the store holds.
AtNoteBoundary == pc \in {"poll", "call", "summary"}

C19_StoreMatchesLocal ==
    /\ AtNoteBoundary => store_scratchpad = scratchpad
    /\ pc = "inflight" =>
          worker_calls[Len(worker_calls)].agent_scratchpad = store_scratchpad

C19_Witness ==
    /\ pc = "call"
    /\ idx = 2
    /\ scratchpad_at_load = "S0"
    /\ Len(store_calls) = 2
    /\ store_calls[2] = [op |-> "update_scratchpad", text |-> "S1"]
    /\ store_scratchpad = "S1"
    /\ scratchpad = "S1"

\* C20: the status written for an audited note depends on the critique's
\* verification_status and on nothing else: it is that value, two critiques
\* with the same verification_status write the same status whatever their
\* revise_needed, accuracy_score and hallucinations_detected are, and a
\* critique with revise_needed set and a verdict of passed leaves the note
\* PASSED.
WrittenStatus(k) == StoreNote(store_calls[k].note_id).verification_status

C20_VerdictAlone ==
    /\ \A k, l \in VerificationCalls :
          store_calls[k].critique_result.verification_status =
              store_calls[l].critique_result.verification_status
          => /\ store_calls[k].status = store_calls[l].status
             /\ WrittenStatus(k) = WrittenStatus(l)
    /\ \A k \in VerificationCalls :
          /\ store_calls[k].critique_result.revise_needed = "true"
          /\ store_calls[k].critique_result.verification_status = PASSED
          => WrittenStatus(k) = PASSED

C20_Witness ==
    /\ pc = "done"
    /\ \E k, l \in VerificationCalls :
          /\ store_calls[k].critique_result.revise_needed = "true"
          /\ store_calls[k].critique_result.accuracy_score = "0.1"
          /\ store_calls[k].critique_result.hallucinations_detected = <<"h1">>
          /\ store_calls[k].critique_result.verification_status = PASSED
          /\ WrittenStatus(k) = PASSED
          /\ store_calls[l].critique_result.revise_needed = "false"
          /\ store_calls[l].critique_result.accuracy_score = "0.9"
          /\ store_calls[l].critique_result.hallucinations_detected = <<>>
          /\ WrittenStatus(l) = PASSED

\* C21: a batch run on an existing mission never invokes the worker more
\* often than it has selected notes, and, provided every awaited call returns
\* (no backend call is left by an exception that run lets through, and the
\* coroutine is resumed after each call), the run ends having recorded its one
\* batch summary, whichever audits succeed or fail and whenever the mission is
\* stopped.
SummaryRecorded ==
    /\ pc = "done"
    /\ Len(execution_log) = 1
    /\ Cardinality(SummaryCalls) = 1
    /\ outcome = ReturnedNone

\* every backend call of the run has returned: none was left by an exception
EveryCallReturns == ~Aborted

C21_Termination ==
    /\ [](Len(worker_calls) <= NumSelected)
    /\ []EveryCallReturns => ((mission_exists /\ pc = "start") ~> SummaryRecorded)

C21_Witness ==
    /\ SummaryRecorded
    /\ NumSelected = 3
    /\ Len(worker_calls) = 2
    /\ HasCritique(1)
    /\ ~HasCritique(2)
    /\ stopped_at = [pc |-> "apply", idx |-> 2]
    /\ execution_log[1].output_summary.count = 1

====
